---- MODULE Spec2Model ----
(***************************************************************************)
(* Model of scrape-osa.js: the scrapeData driver (one browser launch, a    *)
(* retry loop around navigation, pagination enumeration and the profile    *)
(* walk), the saveToGoogleSheet sink and the top-level async IIFE that     *)
(* writes the CSV file and then calls the spreadsheet sink.                *)
(*                                                                         *)
(* Every await of the script is a step that either completes or throws;    *)
(* what the remote site renders is an input drawn from small sets.         *)
(***************************************************************************)
EXTENDS Integers, Sequences, FiniteSets, TLC

(* ---------------- bounds of the model ---------------- *)
\* most option values the pagination control exposes
MaxOptions == 2
\* most PublicProfile anchors one rendered page holds
MaxPageLen == 2

\* the profile URLs the directory can render
Urls == {"A", "B", "C"}

\* every list of hrefs one page.evaluate scan can return
Pages == UNION {[1..n -> Urls] : n \in 0..MaxPageLen}

(* ---------------- program constants ---------------- *)
\* let retries = 3;
InitialRetries == 3

VARIABLES
  pc,                 \* position of the single thread of control
  retries,            \* let retries (line 59)
  launches,           \* number of puppeteer.launch calls that completed
  browserOpen,        \* the launched browser has not been closed
  attempts,           \* history: for each attempt, the session its page.goto used
  paginationOptions,  \* const paginationOptions (line 77)
  optIdx,             \* position of the for-of loop in paginationOptions
  pageMemberLinks,    \* const pageMemberLinks (line 104)
  allMemberLinks,     \* const allMemberLinks (line 71)
  rendered,           \* history: the scanned pages of this enumeration, concatenated
  enumState,          \* history: "none" | "running" | "ok" | "error"
  selected,          \* history: the option positions selected in this enumeration
  visited,            \* history: the link positions the profile loop navigated to
  enumErr,            \* history: the enumeration step whose error the pagination catch
                      \* caught in this attempt, or "none"
  i,                  \* let i of the profile loop (line 196)
  members,            \* const members (line 195)
  outcome,            \* history: per visited link, "ok" or the step that raised
  err,                \* the error last caught by the retry loop's catch: its attempt,
                      \* whether the attempt had records then (1 or 0), and the step
                      \* that raised it; a swallowed error leaves the catch block, where
                      \* err is scoped, and only "swallowed" is kept of its step
  ret,                \* how scrapeData ended: "pending" | "array" | "undefined" | "threw"
  rows,               \* const rows of the IIFE (line 339)
  csvState,           \* "idle" | "written" | "failed"
  csvFile,            \* content of osa_members.csv
  sheetInvoked,       \* saveToGoogleSheet has been called
  sheetLog,           \* spreadsheet API calls that completed, in order
  sheetErr,           \* the step of saveToGoogleSheet that raised, or "none"
  sheet,              \* content of the spreadsheet
  doc,                \* the profile document loaded in the page
  xpc,                \* position of the extractor run on doc
  looked,             \* the label given to getText and the text it returned
  memberRec           \* the record the extraction returned for doc

vars == <<pc, retries, launches, browserOpen, attempts, paginationOptions, optIdx,
          pageMemberLinks, allMemberLinks, rendered, enumState, enumErr, selected, i,
          members, outcome, visited,
          err, ret, rows, csvState, csvFile, sheetInvoked, sheetLog, sheetErr, sheet,
          doc, xpc, looked, memberRec>>

drv    == <<retries, launches, browserOpen, attempts, err, ret, rows>>
enum   == <<paginationOptions, optIdx, pageMemberLinks, allMemberLinks, rendered, enumState,
            enumErr, selected>>
walk   == <<i, members, outcome, visited>>
sinks  == <<csvState, csvFile, sheetInvoked, sheetLog, sheetErr, sheet>>
ext    == <<doc, xpc, looked, memberRec>>

NoErr == [att |-> 0, at |-> "none", had |-> 0]
\* 1 when the failing attempt had accumulated records, else 0
HadRecords(ms) == IF ms = <<>> THEN 0 ELSE 1
\* what the spreadsheet holds before the run
OldSheet == <<"stale">>
\* const headers (line 300)
Headers == <<"Company Name", "Contact Name", "Phone", "Email", "City", "Province",
             "Website", "Member Type">>

(* ---------------- pure helpers ---------------- *)
\* Array.prototype.includes on a list of strings
Includes(links, link) == \E k \in DOMAIN links : links[k] = link

PushAlways(links, link) == Append(links, link)

\* if (!allMemberLinks.includes(link)) allMemberLinks.push(link)
PushUnique(links, link) == IF Includes(links, link) THEN links ELSE Append(links, link)

RECURSIVE AddUniqueBackwards(_, _)
AddUniqueBackwards(links, page) ==
  IF page = <<>> THEN links
  ELSE AddUniqueBackwards(PushUnique(links, page[Len(page)]), SubSeq(page, 1, Len(page) - 1))

\* pageMemberLinks.forEach(link => ...)
RECURSIVE AddUnique(_, _)
AddUnique(links, page) ==
  IF page = <<>> THEN links
  ELSE AddUnique(PushUnique(links, Head(page)), Tail(page))

\* a history of at most cap + 1 entries: one more than the loop has items, so
\* that any repeated item shows in it
Record(hist, x, cap) == IF Len(hist) <= cap THEN Append(hist, x) ELSE hist

SameIndex(k) == k

\* i++ of the profile loop
NextIndex(k) == k + 1

UnshiftMember(ms, m) == <<m>> \o ms

\* members.push(memberInfo)
PushMember(ms, m) == Append(ms, m)

HoistedArray(old) == old

\* const allMemberLinks = []; const members = []; inside the body of the retry
\* loop: every iteration binds a new empty array
FreshArray(old) == <<>>

RethrowEarly(r) == r = 1

RethrowAfterLoop(r) == r < 0

\* if (retries === 0) throw err;
ShouldRethrow(r) == r = 0

RetryEntryRelaunch == "launch"

\* the catch block falls out of the try statement to the head of the while loop
RetryEntry == "loopTest"

WalkCatchAborts == "close"

\* the per-member catch only logs; the for loop goes on with i++
WalkCatchTarget == "walkInc"

HasRowsOrEmpty(rs) == Len(rs) >= 0

\* if (rows.length > 0)
HasRows(rs) == Len(rs) > 0

CsvFailSwallowed == "sheetAuth"

\* writeRecords is awaited unguarded inside the IIFE's try: its error reaches the catch
CsvFailTarget == "failed"

InnerCatchEscapes == "loopTest"

\* the pagination catch only logs; control goes on after the inner try statement
InnerCatchTarget == "debug"

LinksClearedOnError(links) == <<>>

\* allMemberLinks is declared outside the pagination try: its catch leaves it as it is
LinksAfterEnumError(links) == links

SheetCatchRethrows == "failed"

\* the catch of saveToGoogleSheet only logs; the IIFE's try block then ends
SheetCatchTarget == "done"

(* ---------------- the profile document and the field extractor ---------------- *)
\* Text is a sequence of tokens: " " is white space, any other token a word.
\* A document lists the elements below <body> in document order: parent[n] is
\* the position of the parent element (0: the parent is <body>), tag[n] the tag,
\* text[n] the element's own text. <body> has no sibling and neither has <html>,
\* so a match on them never returns and they are left out of the scan.

\* most elements of a generated profile document
MaxNodes == 4

Blank == " "

RECURSIVE TrimRight(_)
TrimRight(t) ==
  IF t # <<>> /\ t[Len(t)] = Blank THEN TrimRight(SubSeq(t, 1, Len(t) - 1)) ELSE t

RECURSIVE TrimLeft(_)
TrimLeft(t) ==
  IF t # <<>> /\ Head(t) = Blank THEN TrimLeft(Tail(t)) ELSE t

\* String.prototype.trim
Trim(t) == TrimRight(TrimLeft(t))

\* the last element of the subtree of n: elements are in document order, so the
\* subtree is the run of elements after n whose parents lie inside it
RECURSIVE SubtreeEnd(_, _, _)
SubtreeEnd(d, n, m) ==
  IF m < Len(d.parent) /\ d.parent[m + 1] >= n THEN SubtreeEnd(d, n, m + 1) ELSE m

RECURSIVE ConcatText(_, _, _)
ConcatText(d, from, to) ==
  IF from > to THEN <<>> ELSE d.text[from] \o ConcatText(d, from + 1, to)

\* el.textContent: the text of the element and of all its descendants, in order
TextContent(d, n) == ConcatText(d, n, SubtreeEnd(d, n, n))

\* el.nextElementSibling (0: null)
NextElementSibling(d, n) ==
  LET later == {k \in (n + 1)..Len(d.parent) : d.parent[k] = d.parent[n]}
  IN  IF later = {} THEN 0 ELSE CHOOSE k \in later : \A j \in later : k <= j

\* what one iteration of the for loop of getText returns for el, or "next" when
\* the loop goes on: [hit |-> TRUE, val |-> text] ends the scan
GetTextAt(d, label, el) ==
  LET tc == TextContent(d, el) IN
  IF tc # <<>> /\ Trim(tc) = label
    THEN LET nextEl == NextElementSibling(d, el)
             parent == d.parent[el]
         IN  IF nextEl # 0
               THEN [hit |-> TRUE, val |-> Trim(TextContent(d, nextEl))]
               ELSE IF parent # 0 /\ NextElementSibling(d, parent) # 0
                      THEN [hit |-> TRUE,
                            val |-> Trim(TextContent(d, NextElementSibling(d, parent)))]
                      ELSE [hit |-> FALSE, val |-> <<>>]
    ELSE [hit |-> FALSE, val |-> <<>>]

RECURSIVE GetTextFrom(_, _, _)
GetTextFrom(d, label, el) ==
  IF el > Len(d.parent) THEN <<>>
  ELSE LET r == GetTextAt(d, label, el)
       IN  IF r.hit THEN r.val ELSE GetTextFrom(d, label, el + 1)

\* const getText = (label) => ...: scan document.querySelectorAll('*') in order
GetText(d, label) == GetTextFrom(d, label, 1)

\* document.querySelector(tag)?.textContent.trim(): the first element with the
\* tag, "" (falsy) when there is none
QueryText(d, tag) ==
  LET found == {k \in 1..Len(d.parent) : d.tag[k] = tag}
  IN  IF found = {} THEN <<>>
      ELSE Trim(TextContent(d, CHOOSE k \in found : \A j \in found : k <= j))

\* h3 text || h2 text || ''
Company(d) == IF QueryText(d, "h3") # <<>> THEN QueryText(d, "h3") ELSE QueryText(d, "h2")

ContactUntrimmed(first, last) == first \o <<Blank>> \o last

\* `${firstName} ${lastName}`.trim()
Contact(first, last) == Trim(first \o <<Blank>> \o last)

\* the object page.evaluate returns (lines 226-254)
ExtractRecord(d) ==
  [company    |-> Company(d),
   contact    |-> Contact(GetText(d, <<"First name">>), GetText(d, <<"Last name">>)),
   phone      |-> <<>>,
   email      |-> GetText(d, <<"Email">>),
   city       |-> GetText(d, <<"City">>),
   province   |-> GetText(d, <<"Province/State">>),
   website    |-> GetText(d, <<"Web Site">>),
   memberType |-> <<>>]

\* a document is in document order when each element's parent is the element
\* before it or one of that element's ancestors (or <body>)
RECURSIVE OnPathToRoot(_, _, _)
OnPathToRoot(par, a, n) ==
  IF a = 0 THEN TRUE
  ELSE IF n = 0 THEN FALSE
  ELSE IF a = n THEN TRUE
  ELSE OnPathToRoot(par, a, par[n])

DocumentOrder(par) ==
  \A k \in DOMAIN par :
    /\ par[k] < k
    /\ k > 1 => OnPathToRoot(par, par[k], k - 1)
    /\ k = 1 => par[k] = 0

Shapes == UNION {{par \in [1..n -> 0..(n - 1)] : DocumentOrder(par)} : n \in 0..MaxNodes}

IsLeaf(par, n) == \A k \in DOMAIN par : par[k] # n

\* the texts a leaf of a generated document can hold
LeafTexts == {<<>>, <<Blank>>, <<"First name">>, <<"Last name", Blank>>,
              <<"Jane">>, <<Blank, "Doe", Blank>>}

\* the labels looked up in generated documents
Labels == {<<"First name">>, <<"Last name">>}

\* the elements of a shape that have no child element
Leaves(par) == {k \in DOMAIN par : IsLeaf(par, k)}

\* a generated profile document: a shape with text on its leaves only
Doc(par, lt) ==
  [parent |-> par,
   tag    |-> [k \in DOMAIN par |-> "div"],
   text   |-> [k \in DOMAIN par |-> IF IsLeaf(par, k) THEN lt[k] ELSE <<>>]]

\* the profile page served for a link: a heading with the company, then one
\* row (label, value) each for first name, last name and e-mail
ProfileDoc(link) ==
  [parent |-> <<0, 0, 2, 2, 0, 5, 5, 0, 8, 8>>,
   tag    |-> <<"h3", "div", "span", "span", "div", "span", "span", "div", "span", "span">>,
   text   |-> << <<Blank, link, Blank>>, <<>>, <<"First name">>, <<"Jane">>,
                 <<>>, <<"Last name">>, <<Blank, "Doe">>,
                 <<>>, <<"Email">>, <<link, "@osa">> >>]

\* the record page.evaluate returns for the k-th link, with where it comes from:
\* the link, its position in the LinkSet and the attempt that extracted it
ProfileRecords == [link \in Urls |-> ExtractRecord(ProfileDoc(link))]

MemberInfo(k, link, att) ==
  LET r == ProfileRecords[link]
  IN  [company |-> r.company, contact |-> r.contact, phone |-> r.phone, email |-> r.email,
       city |-> r.city, province |-> r.province, website |-> r.website,
       memberType |-> r.memberType, idx |-> k, link |-> link, att |-> att]

RowOfSwapped(r) ==
  <<r.contact, r.company, r.phone, r.email, r.city, r.province, r.website, r.memberType>>

\* rows.map(row => [row.company, ..., row.memberType])
RowOf(r) ==
  <<r.company, r.contact, r.phone, r.email, r.city, r.province, r.website, r.memberType>>

\* values: [headers, ...data]
SheetValues(rs) == <<Headers>> \o [k \in DOMAIN rs |-> RowOf(rs[k])]

(* ---------------- initial state ---------------- *)
RunInit ==
  /\ pc = "launch"
  /\ retries = InitialRetries
  /\ launches = 0
  /\ browserOpen = FALSE
  /\ attempts = <<>>
  /\ paginationOptions = <<>>
  /\ optIdx = 0
  /\ pageMemberLinks = <<>>
  /\ allMemberLinks = <<>>
  /\ rendered = <<>>
  /\ enumState = "none"
  /\ enumErr = "none"
  /\ selected = <<>>
  /\ visited = <<>>
  /\ i = 0
  /\ members = <<>>
  /\ outcome = <<>>
  /\ err = NoErr
  /\ ret = "pending"
  /\ rows = <<>>
  /\ csvState = "idle"
  /\ csvFile = <<>>
  /\ sheetInvoked = FALSE
  /\ sheetLog = <<>>
  /\ sheetErr = "none"
  /\ sheet = OldSheet

\* no profile page is loaded
NoDoc == [parent |-> <<>>, tag |-> <<>>, text |-> <<>>]

NoLookup == [label |-> <<>>, val |-> <<>>]

Init ==
  /\ RunInit
  /\ doc = NoDoc
  /\ xpc = "idle"
  /\ looked = NoLookup
  /\ memberRec = ExtractRecord(NoDoc)

(* ---------------- scrapeData: session and retry loop ---------------- *)
\* the block-scoped constants of the try block are gone once the block is left;
\* the arrays the next iteration sees are the ones its declarations bind
LocalsDropped ==
  /\ paginationOptions' = <<>>
  /\ optIdx' = 0
  /\ pageMemberLinks' = <<>>
  /\ allMemberLinks' = FreshArray(allMemberLinks)
  /\ rendered' = <<>>
  /\ enumState' = "none"
  /\ enumErr' = "none"
  /\ selected' = <<>>
  /\ visited' = <<>>
  /\ i' = 0
  /\ members' = FreshArray(members)
  /\ outcome' = <<>>

\* catch (err) of the retry loop, reached from step `at` of attempt `att`
OuterCatch(at, att) ==
  /\ IF ShouldRethrow(retries)
       THEN /\ pc' = "failed"
            /\ ret' = "threw"
            /\ err' = [att |-> att, at |-> at, had |-> HadRecords(members)]
       ELSE /\ pc' = RetryEntry
            /\ ret' = ret
            /\ err' = [att |-> att, at |-> "swallowed", had |-> HadRecords(members)]
  /\ LocalsDropped
  /\ UNCHANGED <<retries, launches, rows>>

\* puppeteer.launch, newPage, setUserAgent: before the loop, outside any try
Launch ==
  /\ pc = "launch"
  /\ \/ /\ launches' = launches + 1
        /\ browserOpen' = TRUE
        /\ pc' = "loopTest"
        /\ UNCHANGED <<err, ret>>
     \/ /\ err' = [att |-> 0, at |-> "launch", had |-> 0]
        /\ ret' = "threw"
        /\ pc' = "failed"
        /\ UNCHANGED <<launches, browserOpen>>
  /\ UNCHANGED <<retries, attempts, rows, enum, walk, sinks>>
  /\ UNCHANGED ext

\* while (retries--)
LoopTest ==
  /\ pc = "loopTest"
  /\ retries' = retries - 1
  /\ IF retries # 0
       THEN pc' = "gotoRoot" /\ ret' = ret
       ELSE pc' = "mainRows" /\ ret' = "undefined"
  /\ UNCHANGED <<launches, browserOpen, attempts, err, rows, enum, walk, sinks>>
  /\ UNCHANGED ext

\* page.goto(directory), the 5 s pause, const allMemberLinks = []
GotoRoot ==
  /\ pc = "gotoRoot"
  /\ attempts' = Append(attempts, launches)
  /\ \/ /\ browserOpen
        /\ pc' = "waitSelector"
        /\ allMemberLinks' = FreshArray(allMemberLinks)
        /\ enumState' = "running"
        /\ UNCHANGED <<retries, launches, err, ret, rows, paginationOptions, optIdx,
                       pageMemberLinks, rendered, enumErr, selected, walk>>
     \/ OuterCatch("gotoRoot", Len(attempts) + 1)
  /\ UNCHANGED <<browserOpen, sinks>>
  /\ UNCHANGED ext

(* ---------------- pagination enumeration ---------------- *)
\* catch (error) of the pagination try: log only
InnerCatch(at) ==
  /\ enumState' = "error"
  /\ enumErr' = at
  /\ pc' = InnerCatchTarget
  /\ paginationOptions' = <<>>
  /\ optIdx' = 0
  /\ pageMemberLinks' = <<>>
  /\ allMemberLinks' = LinksAfterEnumError(allMemberLinks)
  /\ UNCHANGED rendered

WaitSelector ==
  /\ pc = "waitSelector"
  /\ \/ pc' = "readOptions" /\ UNCHANGED enum
     \/ InnerCatch("waitSelector") /\ UNCHANGED selected
  /\ UNCHANGED <<drv, walk, sinks>>
  /\ UNCHANGED ext

ReadOptions ==
  /\ pc = "readOptions"
  /\ \/ \E n \in 0..MaxOptions :
          /\ paginationOptions' = [k \in 1..n |-> k]
          /\ optIdx' = 1
          /\ pc' = "forOption"
          /\ UNCHANGED <<pageMemberLinks, allMemberLinks, rendered, enumState, enumErr,
                       selected>>
     \/ InnerCatch("readOptions") /\ UNCHANGED selected
  /\ UNCHANGED <<drv, walk, sinks>>
  /\ UNCHANGED ext

\* for (const optionValue of paginationOptions), and the end of the try block
ForOption ==
  /\ pc = "forOption"
  /\ IF optIdx <= Len(paginationOptions)
       THEN /\ pc' = "selectOption"
            /\ UNCHANGED enum
       ELSE /\ pc' = "debug"
            /\ enumState' = "ok"
            /\ paginationOptions' = <<>>
            /\ optIdx' = 0
            /\ pageMemberLinks' = <<>>
            /\ UNCHANGED <<allMemberLinks, rendered, enumErr, selected>>
  /\ UNCHANGED <<drv, walk, sinks>>
  /\ UNCHANGED ext

\* select the option, dispatch change, 3 s pause
SelectOption ==
  /\ pc = "selectOption"
  /\ selected' = Record(selected, optIdx, Len(paginationOptions))
  /\ \/ /\ pc' = "scanLinks"
        /\ UNCHANGED <<paginationOptions, optIdx, pageMemberLinks, allMemberLinks, rendered,
                       enumState, enumErr>>
     \/ InnerCatch("selectOption")
  /\ UNCHANGED <<drv, walk, sinks>>
  /\ UNCHANGED ext

\* scan the anchors of the rendered page and add the unseen ones
ScanLinks ==
  /\ pc = "scanLinks"
  /\ \/ \E page \in Pages :
          /\ pageMemberLinks' = page
          /\ rendered' = rendered \o page
          /\ allMemberLinks' = AddUnique(allMemberLinks, page)
          /\ pc' = "optionShot"
          /\ UNCHANGED <<paginationOptions, optIdx, enumState, enumErr, selected>>
     \/ InnerCatch("scanLinks") /\ UNCHANGED selected
  /\ UNCHANGED <<drv, walk, sinks>>
  /\ UNCHANGED ext

\* page.screenshot(page_option_X.png)
OptionShot ==
  /\ pc = "optionShot"
  /\ \/ /\ optIdx' = optIdx + 1
        /\ pc' = "forOption"
        /\ UNCHANGED <<paginationOptions, pageMemberLinks, allMemberLinks, rendered, enumState,
                       enumErr, selected>>
     \/ InnerCatch("optionShot") /\ UNCHANGED selected
  /\ UNCHANGED <<drv, walk, sinks>>
  /\ UNCHANGED ext

\* screenshot.png, content, title, pageInfo, the two scrolls, and the length test
Debug ==
  /\ pc = "debug"
  /\ \/ /\ rendered' = <<>>
        /\ selected' = <<>>
        /\ IF Len(allMemberLinks) = 0
             THEN pc' = "noLinksShot" /\ UNCHANGED walk
             ELSE pc' = "walkTest" /\ members' = FreshArray(members) /\ i' = 1 /\ outcome' = <<>>
                  /\ visited' = <<>>
        /\ UNCHANGED <<drv, paginationOptions, optIdx, pageMemberLinks, allMemberLinks, enumState,
                       enumErr>>
     \/ /\ OuterCatch("debug", Len(attempts))
        /\ UNCHANGED <<browserOpen, attempts>>
  /\ UNCHANGED sinks
  /\ UNCHANGED ext

\* screenshot debug_no_links.png; return [] (browser.close() is not on this path)
NoLinksReturn ==
  /\ pc = "noLinksShot"
  /\ \/ /\ rows' = <<>>
        /\ ret' = "array"
        /\ pc' = "mainRows"
        /\ UNCHANGED <<retries, launches, browserOpen, attempts, err, enum, walk>>
     \/ /\ OuterCatch("noLinksShot", Len(attempts))
        /\ UNCHANGED <<browserOpen, attempts>>
  /\ UNCHANGED sinks
  /\ UNCHANGED ext

(* ---------------- profile walk ---------------- *)
\* catch (error) of one member: log with the ordinal, nothing else
WalkCatch(step) ==
  /\ outcome' = Append(outcome, step)
  /\ pc' = WalkCatchTarget
  /\ UNCHANGED <<i, members>>

\* i < memberLinks.length
WalkTest ==
  /\ pc = "walkTest"
  /\ pc' = IF i <= Len(allMemberLinks) THEN "walkGoto" ELSE "close"
  /\ UNCHANGED <<drv, enum, walk, sinks>>
  /\ UNCHANGED ext

\* page.goto(link) and the 2 s pause
WalkGoto ==
  /\ pc = "walkGoto"
  /\ visited' = Record(visited, i, Len(allMemberLinks))
  /\ \/ pc' = "walkExtract" /\ UNCHANGED <<i, members, outcome>>
     \/ WalkCatch("navigate")
  /\ UNCHANGED <<drv, enum, sinks>>
  /\ UNCHANGED ext

\* page.evaluate(extract) and members.push(memberInfo)
WalkExtract ==
  /\ pc = "walkExtract"
  /\ \/ /\ members' = PushMember(members, MemberInfo(i, allMemberLinks[i], Len(attempts)))
        /\ pc' = "walkShot"
        /\ UNCHANGED <<i, outcome>>
     \/ WalkCatch("extract")
  /\ UNCHANGED visited
  /\ UNCHANGED <<drv, enum, sinks>>
  /\ UNCHANGED ext

\* page.screenshot(member_X.png)
WalkShot ==
  /\ pc = "walkShot"
  /\ \/ /\ outcome' = Append(outcome, "ok")
        /\ pc' = "walkInc"
        /\ UNCHANGED <<i, members>>
     \/ WalkCatch("snapshot")
  /\ UNCHANGED visited
  /\ UNCHANGED <<drv, enum, sinks>>
  /\ UNCHANGED ext

\* i++
WalkInc ==
  /\ pc = "walkInc"
  /\ i' = NextIndex(i)
  /\ pc' = "walkTest"
  /\ UNCHANGED <<drv, enum, members, outcome, visited, sinks>>
  /\ UNCHANGED ext

\* await browser.close(); return members
CloseReturn ==
  /\ pc = "close"
  /\ \/ /\ browserOpen' = FALSE
        /\ rows' = members
        /\ ret' = "array"
        /\ pc' = "mainRows"
        /\ UNCHANGED <<retries, launches, attempts, err, enum, walk>>
     \/ /\ OuterCatch("close", Len(attempts))
        /\ browserOpen' \in BOOLEAN
        /\ UNCHANGED attempts
  /\ UNCHANGED sinks
  /\ UNCHANGED ext

(* ---------------- the IIFE and the sinks ---------------- *)
\* const rows = await scrapeData(); if (rows.length > 0) ... else log
MainRows ==
  /\ pc = "mainRows"
  /\ pc' = IF ret = "undefined" THEN "failed"
           ELSE IF HasRows(rows) THEN "csv" ELSE "done"
  /\ UNCHANGED <<drv, enum, walk, sinks>>
  /\ UNCHANGED ext

\* await csvWriter.writeRecords(rows)
CsvWrite ==
  /\ pc = "csv"
  /\ \/ /\ csvState' = "written"
        /\ csvFile' = rows
        /\ pc' = "sheetAuth"
     \/ /\ csvState' = "failed"
        /\ csvFile' = csvFile
        /\ pc' = CsvFailTarget
  /\ UNCHANGED <<drv, enum, walk, sheetInvoked, sheetLog, sheetErr, sheet>>
  /\ UNCHANGED ext

\* catch (error) of saveToGoogleSheet, reached from step `at`
SheetCatch(at) ==
  /\ sheetErr' = at
  /\ pc' = SheetCatchTarget

\* saveToGoogleSheet(rows): key file path, auth.getClient, sheets client, data
SheetAuth ==
  /\ pc = "sheetAuth"
  /\ sheetInvoked' = TRUE
  /\ \/ pc' = "sheetClear" /\ UNCHANGED sheetErr
     \/ SheetCatch("auth")
  /\ UNCHANGED <<drv, enum, walk, csvState, csvFile, sheetLog, sheet>>
  /\ UNCHANGED ext

\* sheets.spreadsheets.values.clear(A:Z)
SheetClear ==
  /\ pc = "sheetClear"
  /\ \/ /\ sheet' = <<>>
        /\ sheetLog' = Append(sheetLog, "clear")
        /\ pc' = "sheetUpdate"
        /\ UNCHANGED sheetErr
     \/ /\ SheetCatch("clear")
        /\ sheet' \in {sheet, <<>>}
        /\ UNCHANGED sheetLog
  /\ UNCHANGED <<drv, enum, walk, csvState, csvFile, sheetInvoked>>
  /\ UNCHANGED ext

\* sheets.spreadsheets.values.update(A1, [headers, ...data])
SheetUpdate ==
  /\ pc = "sheetUpdate"
  /\ \/ /\ sheet' = SheetValues(rows)
        /\ sheetLog' = Append(sheetLog, "update")
        /\ pc' = "done"
        /\ UNCHANGED sheetErr
     \/ /\ SheetCatch("update")
        /\ sheet' \in {sheet, SheetValues(rows)}
        /\ UNCHANGED sheetLog
  /\ UNCHANGED <<drv, enum, walk, csvState, csvFile, sheetInvoked>>
  /\ UNCHANGED ext

Next ==
  \/ Launch \/ LoopTest \/ GotoRoot
  \/ WaitSelector \/ ReadOptions \/ ForOption \/ SelectOption \/ ScanLinks \/ OptionShot
  \/ Debug \/ NoLinksReturn
  \/ WalkTest \/ WalkGoto \/ WalkExtract \/ WalkShot \/ WalkInc \/ CloseReturn
  \/ MainRows \/ CsvWrite \/ SheetAuth \/ SheetClear \/ SheetUpdate

Spec == Init /\ [][Next]_vars

(* ---------------- the extractor on generated documents ---------------- *)
\* a generated profile document is loaded in the page; the run itself is idle
InitExtract ==
  /\ RunInit
  /\ \E par \in Shapes : \E lt \in [Leaves(par) -> LeafTexts] : doc = Doc(par, lt)
  /\ xpc = "loaded"
  /\ looked = NoLookup
  /\ memberRec = ExtractRecord(NoDoc)

run == <<pc, drv, enum, walk, sinks>>

\* getText(label) on the loaded document
Lookup ==
  /\ xpc = "loaded"
  /\ \E label \in Labels :
       looked' = [label |-> label, val |-> GetText(doc, label)]
  /\ xpc' = "looked"
  /\ UNCHANGED <<doc, memberRec, run>>

\* the function given to page.evaluate, run on the loaded document
Extract ==
  /\ xpc = "loaded"
  /\ memberRec' = ExtractRecord(doc)
  /\ xpc' = "extracted"
  /\ UNCHANGED <<doc, looked, run>>

NextExtract == Lookup \/ Extract

SpecExtract == InitExtract /\ [][NextExtract]_vars

\* every await settles: the single thread of control always takes its next step
FairSpec == Spec /\ WF_vars(Next)

(* ======================= claims ======================= *)

\* the steps of a retried attempt that can end it with an uncaught error
AttemptSteps == {"gotoRoot", "debug", "noLinksShot", "close"}

\* C1 as stated: any two attempts of a run use different browsing sessions
\* (a retry launches a new browser and page).
C1_FreshSessionPerAttempt ==
  \A a, b \in DOMAIN attempts : a # b => attempts[a] # attempts[b]

\* C1 amended: a run launches one browsing session, before the retry loop; every
\* attempt navigates with that same browser and page, and a retry goes back to
\* the head of the loop, never to the launch.
C1_OneSessionPerRun ==
  /\ launches <= 1
  /\ \A a \in DOMAIN attempts : attempts[a] = 1
  /\ pc = "launch" => attempts = <<>> /\ err = NoErr

C1_Witness ==
  /\ Len(attempts) = 3
  /\ err.att = 2
  /\ pc = "waitSelector"

\* C2: scrapeData makes at most 3 attempts; a failed attempt is followed by
\* another one only while attempts remain; the failure of the third attempt is
\* thrown to the caller, and after a throw neither sink is invoked and nothing
\* is persisted.
C2_BoundedAttempts ==
  /\ Len(attempts) <= 3
  /\ (pc \in {"loopTest", "gotoRoot"} /\ err # NoErr) => err.att < 3
  /\ (err.att = 3) => ret = "threw"
  /\ ret = "threw" =>
       /\ err.at = "launch" \/ (err.att = 3 /\ Len(attempts) = 3 /\ err.at \in AttemptSteps)
       /\ pc = "failed"
       /\ csvState = "idle" /\ ~sheetInvoked
       /\ csvFile = <<>> /\ sheet = OldSheet /\ sheetLog = <<>>

C2_Witness ==
  /\ ret = "threw"
  /\ err.att = 3
  /\ err.had > 0
  /\ pc = "failed"

\* C3 as stated: whenever scrapeData has returned a record sequence, the
\* browsing session has been closed, also on the empty-link-set path.
C3_ClosedBeforeReturn ==
  ret = "array" => ~browserOpen

\* C4 as stated: a link whose processing raised at any step (navigate, extract,
\* append, snapshot) has no record in the output.
C4_NoRecordForRaisedLink ==
  \A k \in DOMAIN outcome :
    outcome[k] # "ok" => ~\E m \in DOMAIN members : members[m].idx = k

\* C4 amended: an error of any step of a link is caught and the Walker goes on
\* with the next link; the output holds no record for the link when navigation
\* or extraction raised, and holds the link's record, already appended, when the
\* snapshot raised.
C4_SkipOnError ==
  \A k \in DOMAIN outcome :
    /\ outcome[k] \in {"navigate", "extract"} =>
         ~\E m \in DOMAIN members : members[m].idx = k
    /\ outcome[k] = "snapshot" =>
         Cardinality({m \in DOMAIN members : members[m].idx = k}) = 1
    /\ outcome[k] # "ok" =>
         \/ k < i
         \/ k = i /\ pc = "walkInc"

C4_Witness ==
  /\ ret = "array"
  /\ Len(outcome) = 3
  /\ outcome[1] = "extract"
  /\ outcome[2] = "snapshot"
  /\ outcome[3] = "ok"

\* C5: the spreadsheet sink is invoked only after the CSV write has succeeded;
\* when the CSV write fails the sink is never invoked and the run ends in the
\* top-level failure branch.
C5_CsvFailureAborts ==
  /\ sheetInvoked => csvState = "written"
  /\ csvState = "failed" =>
       /\ pc = "failed"
       /\ ~sheetInvoked
       /\ sheetLog = <<>> /\ sheet = OldSheet

C5_Witness ==
  /\ csvState = "failed"
  /\ pc = "failed"
  /\ Len(rows) > 0

\* C6: an error of any step of the spreadsheet sink (authentication, clear,
\* update) is caught inside saveToGoogleSheet; once the CSV write has succeeded
\* the run never reaches the top-level failure branch, and the CSV file keeps
\* the records.
C6_SheetFailureContained ==
  /\ csvState = "written" => pc # "failed" /\ csvFile = rows
  /\ sheetErr # "none" => pc = "done" /\ csvState = "written"

C6_Witness ==
  /\ sheetErr = "update"
  /\ sheetLog = <<"clear">>
  /\ pc = "done"

\* C7: when scrapeData returns zero records (no link discovered, or every
\* visited profile skipped), neither the CSV write nor the spreadsheet sink is
\* invoked.
C7_NoRecordsNoSinks ==
  (ret = "array" /\ rows = <<>>) =>
    /\ pc \in {"mainRows", "done"}
    /\ csvState = "idle" /\ csvFile = <<>>
    /\ ~sheetInvoked /\ sheetLog = <<>> /\ sheet = OldSheet

C7_Witness ==
  /\ pc = "done"
  /\ ret = "array"
  /\ rows = <<>>
  /\ Len(allMemberLinks) = 2
  /\ outcome = <<"navigate", "extract">>

NoDup(s) == \A a, b \in DOMAIN s : a # b => s[a] # s[b]

Range(s) == {s[k] : k \in DOMAIN s}

\* the position at which x first occurs in s
FirstIdx(s, x) == CHOOSE k \in DOMAIN s : s[k] = x /\ \A j \in 1..(k - 1) : s[j] # x

\* t lists the values of s once each, in the order of their first occurrence in s
IsFirstOccurrences(t, s) ==
  /\ NoDup(t)
  /\ Range(t) = Range(s)
  /\ \A a, b \in DOMAIN t : a < b => FirstIdx(s, t[a]) < FirstIdx(s, t[b])

\* C8: in every state allMemberLinks holds no URL twice, whatever the pages
\* rendered (a link repeated inside one page, or shown under several options).
C8_LinkSetUnique ==
  NoDup(allMemberLinks)

C8_Witness ==
  /\ pc = "optionShot"
  /\ optIdx = 2
  /\ rendered = <<"A", "B", "A", "A">>
  /\ pageMemberLinks = <<"A", "A">>

\* C9: when enumeration has processed all options without error, allMemberLinks
\* is the concatenation of the options' pages, in option order, reduced to first
\* occurrences; and when scrapeData returns after every profile was extracted,
\* there are as many records as links.
C9_LinkSetIsFirstOccurrences ==
  /\ (pc = "debug" /\ enumState = "ok") => IsFirstOccurrences(allMemberLinks, rendered)
  /\ (ret = "array" /\ \A k \in DOMAIN outcome : outcome[k] \in {"ok", "snapshot"}) =>
       /\ Len(outcome) = Len(allMemberLinks)
       /\ Len(rows) = Len(allMemberLinks)

C9_Witness ==
  /\ pc = "debug"
  /\ enumState = "ok"
  /\ rendered = <<"A", "B", "B", "C">>
  /\ allMemberLinks = <<"A", "B", "C">>

\* C10: the Walker's records are never more than the links, each record comes
\* from one link of the LinkSet, no link has two records, and the records are in
\* the order of their links; the sequence returned is that sequence.
C10_WalkerOrderPreserving ==
  /\ Len(members) <= Len(allMemberLinks)
  /\ \A m \in DOMAIN members :
       /\ members[m].idx \in DOMAIN allMemberLinks
       /\ members[m].link = allMemberLinks[members[m].idx]
  /\ \A a, b \in DOMAIN members : a < b => members[a].idx < members[b].idx
  /\ ret = "array" => rows = members

C10_Witness ==
  /\ ret = "array"
  /\ outcome = <<"ok", "navigate", "ok">>
  /\ Len(rows) = 2
  /\ rows[1].idx = 1
  /\ rows[2].idx = 3

\* the positions of the pagination enumeration (the inner try block)
EnumPcs == {"waitSelector", "readOptions", "forOption", "selectOption", "scanLinks",
            "optionShot"}

\* C11: when the wait for the pagination control fails, the error is caught by
\* the pagination catch: the LinkSet is empty, no retry attempt is consumed, the
\* attempt goes on after the enumeration, and what scrapeData then returns is
\* the empty record sequence.
C11_MissingControlSoft ==
  enumErr = "waitSelector" =>
    /\ allMemberLinks = <<>> /\ members = <<>>
    /\ pc \in {"debug", "noLinksShot", "mainRows", "done"}
    /\ retries = InitialRetries - Len(attempts)
    /\ err.att < Len(attempts)
    /\ ret \in {"pending", "array"}
    /\ ret = "array" => rows = <<>>

C11_Witness ==
  /\ enumErr = "waitSelector"
  /\ ret = "array"
  /\ rows = <<>>
  /\ Len(attempts) = 1
  /\ retries = 2
  /\ pc = "done"

\* C16: an error of any enumeration step is caught by the pagination catch: it
\* consumes no retry attempt, no further option is processed in that attempt,
\* the links appended before the error are still the LinkSet, and the Walker of
\* the same attempt visits every one of them.
C16_EnumErrorLocal ==
  enumErr # "none" =>
    /\ enumState = "error"
    /\ pc \notin EnumPcs /\ pc \notin {"launch", "loopTest", "gotoRoot"}
    /\ retries = InitialRetries - Len(attempts)
    /\ err.att < Len(attempts)
    /\ ret \in {"pending", "array"}
    /\ pc = "debug" => IsFirstOccurrences(allMemberLinks, rendered)
    /\ pc \in {"walkTest", "walkGoto", "walkExtract", "walkShot", "walkInc"} =>
         allMemberLinks # <<>> /\ Len(outcome) \in {i - 1, i}
    /\ (pc = "close" \/ ret = "array") => Len(outcome) = Len(allMemberLinks)

C16_Witness ==
  /\ enumErr = "selectOption"
  /\ ret = "array"
  /\ allMemberLinks = <<"B", "A">>
  /\ outcome = <<"ok", "ok">>
  /\ Len(rows) = 2

\* the positions of the IIFE after scrapeData has returned normally
AfterReturnPcs == {"mainRows", "csv", "sheetAuth", "sheetClear", "sheetUpdate", "done"}

\* C17 as stated: every call of scrapeData either returns an array from inside
\* an attempt or throws the error of its last failed attempt, and the loop never
\* ends by its condition.
C17_ArrayOrLastAttemptError ==
  /\ ret \in {"pending", "array", "threw"}
  /\ pc = "loopTest" => retries > 0
  /\ ret = "threw" => err.att = 3 /\ err.at \in AttemptSteps

\* C17 amended: scrapeData never completes normally without a record sequence:
\* every call either returns an array from inside an attempt, or throws the
\* error of its third failed attempt, or throws the error of the launch that
\* precedes the loop; the loop never ends by its condition, so the IIFE never
\* reads rows.length of undefined.
C17_NeverReturnsUndefined ==
  /\ ret \in {"pending", "array", "threw"}
  /\ retries >= 0
  /\ pc = "loopTest" => retries > 0
  /\ pc \in AfterReturnPcs => ret = "array"
  /\ ret = "threw" =>
       \/ err.att = 3 /\ err.at \in AttemptSteps /\ retries = 0
       \/ err.at = "launch" /\ attempts = <<>> /\ retries = InitialRetries

C17_Witness ==
  /\ ret = "threw"
  /\ retries = 0
  /\ err.att = 3
  /\ err.at = "gotoRoot"

\* C18: the LinkSet and the record sequence belong to one attempt: every attempt
\* starts with both empty, the LinkSet holds only links rendered in the current
\* attempt, and every record of members, and of the sequence scrapeData returns,
\* was extracted in the current attempt from a link of its LinkSet.
C18_PerAttemptState ==
  /\ pc \in {"loopTest", "gotoRoot", "waitSelector"} =>
       allMemberLinks = <<>> /\ members = <<>>
  /\ pc \in EnumPcs \cup {"debug"} =>
       members = <<>> /\ Range(allMemberLinks) \subseteq Range(rendered)
  /\ \A m \in DOMAIN members :
       members[m].att = Len(attempts) /\ Includes(allMemberLinks, members[m].link)
  /\ ret = "array" =>
       \A r \in DOMAIN rows :
         rows[r].att = Len(attempts) /\ Includes(allMemberLinks, rows[r].link)

C18_Witness ==
  /\ ret = "array"
  /\ Len(attempts) = 2
  /\ err.at = "swallowed"
  /\ err.had = 1
  /\ Len(rows) = 1
  /\ rows[1].att = 2

\* the run is over: the IIFE has ended, normally or in its catch
Terminated == pc \in {"done", "failed"}

Indices(n) == [k \in 1..n |-> k]

\* the run makes at most 3 root navigations, and within an attempt selects each
\* option position once, in order, and navigates to each link position once, in
\* collection order
C15_Bounded ==
  /\ Len(attempts) <= 3
  /\ selected = Indices(Len(selected))
  /\ pc \in EnumPcs => Len(selected) <= Len(paginationOptions)
  /\ visited = Indices(Len(visited))
  /\ Len(visited) <= Len(allMemberLinks)
  /\ pc \in {"close"} => Len(visited) = Len(allMemberLinks)

\* C15: when every awaited operation completes or fails, the run terminates,
\* after at most 3 root navigations, each attempt selecting each pagination
\* option at most once and visiting each link at most once, in collection order.
C15_Terminates ==
  /\ []C15_Bounded
  /\ <>Terminated

C15_Witness ==
  /\ Terminated
  /\ Len(attempts) = 3
  /\ visited = <<1, 2, 3>>
  /\ ret = "array"

\* C12: in the spreadsheet sink the clear precedes the update, the update is
\* issued at most once and only after authentication and the clear succeeded,
\* and what a fully successful call leaves in the sheet is the header row
\* followed by one row per record, in record order, with the fields in the order
\* company, contact, phone, email, city, province, website, memberType.
C12_ClearThenUpdate ==
  /\ sheetLog \in {<<>>, <<"clear">>, <<"clear", "update">>}
  /\ pc = "sheetUpdate" => sheetLog = <<"clear">> /\ sheetErr = "none" /\ sheet = <<>>
  /\ sheetErr \in {"auth", "clear"} => sheetLog = <<>>
  /\ sheetErr = "update" => sheetLog = <<"clear">>
  /\ sheetLog = <<"clear", "update">> =>
       /\ pc = "done" /\ sheetErr = "none"
       /\ Len(sheet) = Len(rows) + 1
       /\ sheet[1] = <<"Company Name", "Contact Name", "Phone", "Email", "City",
                       "Province", "Website", "Member Type">>
       /\ \A k \in DOMAIN rows :
            sheet[k + 1] = <<rows[k].company, rows[k].contact, rows[k].phone, rows[k].email,
                             rows[k].city, rows[k].province, rows[k].website,
                             rows[k].memberType>>

C12_Witness ==
  /\ pc = "done"
  /\ sheetLog = <<"clear", "update">>
  /\ Len(rows) = 2
  /\ sheet[2][1] = <<"B">>
  /\ sheet[3][1] = <<"A">>
  /\ sheet[3][4] = <<"A", "@osa">>

\* the element following el: its next sibling, or its parent's next sibling
\* when it has none (0: there is none)
Follower(d, el) ==
  IF NextElementSibling(d, el) # 0 THEN NextElementSibling(d, el)
  ELSE IF d.parent[el] # 0 THEN NextElementSibling(d, d.parent[el])
  ELSE 0

\* the elements whose own text, trimmed, is the label
LabelElements(d, label) ==
  {el \in DOMAIN d.parent : d.text[el] # <<>> /\ Trim(d.text[el]) = label}

\* C13 as stated: for every document and label, getText returns the trimmed text
\* of the element following the element whose text is the label (here: when the
\* document has exactly one such element and it has a following element), and
\* the empty string when no element's trimmed text equals the label.
C13_LookupReturnsAdjacentValue ==
  xpc = "looked" =>
    /\ (\A el \in DOMAIN doc.parent : Trim(TextContent(doc, el)) # looked.label) =>
         looked.val = <<>>
    /\ \A el \in LabelElements(doc, looked.label) :
         (LabelElements(doc, looked.label) = {el} /\ Follower(doc, el) # 0) =>
           looked.val = Trim(TextContent(doc, Follower(doc, el)))

\* C14: the contact of a record is first + " " + last, trimmed: it has no blank
\* at either end, is the first name alone when the last name is empty, the last
\* name alone when the first name is empty, and empty when both are.
C14_ContactTrimmedJoin ==
  xpc = "extracted" =>
    LET first == GetText(doc, <<"First name">>)
        last  == GetText(doc, <<"Last name">>)
        c     == memberRec.contact
    IN  /\ c # <<>> => Head(c) # Blank /\ c[Len(c)] # Blank
        /\ last = <<>> => c = first
        /\ first = <<>> => c = last
        /\ (first # <<>> /\ last # <<>>) => c = first \o <<Blank>> \o last

C14_Witness ==
  /\ xpc = "extracted"
  /\ GetText(doc, <<"First name">>) = <<"Jane">>
  /\ GetText(doc, <<"Last name">>) = <<>>
  /\ memberRec.contact = <<"Jane">>
  /\ \E el \in DOMAIN doc.parent : doc.text[el] = <<"Last name", Blank>>

====
